---- MODULE Spec2Model ----
(***************************************************************************)
(* Model of quinnbot (src/bot.py): the Uptime Kuma status fetch and its    *)
(* reconciliation into program statuses, the cached status and the         *)
(* background loop that refreshes it, the /status command, the per-server  *)
(* settings store behind /setup and /programs, its file, and the targets   *)
(* of /announce and !announce; and of the update listener                  *)
(* (src/update_webhook.py): the signature check in front of update.sh.     *)
(***************************************************************************)
EXTENDS Integers, Sequences, FiniteSets, TLC

(***************************************************************************)
(* Bounds of the model.                                                    *)
(***************************************************************************)
\* size of a reconciliation input: directory entries plus heartbeat samples
MaxInputSize == 3
\* size of each response (directory entries, heartbeat samples) seen by a poll
MaxPollInput == 1
\* length of a subscription list in the settings file found at startup
MaxProgramList == 1
\* calls of save_settings that raise in a row
MaxFailedWrites == 1
\* times the update listener starts update.sh
MaxUpdateRuns == 2

(***************************************************************************)
(* Static configuration: PROGRAMS.                                         *)
(***************************************************************************)
ProgramOrder == <<"quinnflix", "vintage", "sugarcraft">>

ProgramIds == {ProgramOrder[i] : i \in DOMAIN ProgramOrder}

MonitorName(prog_id) ==
    CASE prog_id = "quinnflix"  -> "Quinnflix"
      [] prog_id = "vintage"    -> "Vintage Studio Code"
      [] prog_id = "sugarcraft" -> "Sugarcraft"

ProgramEmoji(prog_id) ==
    CASE prog_id = "quinnflix"  -> "clapper"
      [] prog_id = "vintage"    -> "gamepad"
      [] prog_id = "sugarcraft" -> "pick"

Statuses == {"online", "offline", "maintenance"}

(***************************************************************************)
(* Python values: dicts are functions, an empty dict is falsy, and an      *)
(* Optional[Dict] is a record that says whether it is None.                *)
(***************************************************************************)
EmptyDict == [prog_id \in {} |-> "offline"]

\* the fallback built for the first program only
AllOffline_FirstOnly == [prog_id \in {ProgramOrder[1]} |-> "offline"]

AllOffline == [prog_id \in ProgramIds |-> "offline"]

NoneStatus == [some |-> FALSE, d |-> EmptyDict]

Some(d) == [some |-> TRUE, d |-> d]

Truthy(opt) == opt.some /\ DOMAIN opt.d # {}

(***************************************************************************)
(* The two responses of the status page API.                               *)
(* A directory is the flattened publicGroupList[].monitorList[]: a list of *)
(* {id, name}; a name of "" is a missing name.  A heartbeat feed is        *)
(* heartbeatList: monitor id (a string key) -> list of samples, a sample   *)
(* being its status code, NoStatus when the sample has no 'status'.        *)
(***************************************************************************)
MonitorIds == {1, 2}

DirectoryNames == {MonitorName(p) : p \in ProgramIds} \cup {"Other", ""}

NoStatus == -1

StatusCodes == {0, 1, 2, 3, NoStatus}

DirectoryEntries == [id : MonitorIds, name : DirectoryNames]

SeqsUpTo(S, n) == UNION {[1..k -> S] : k \in 0..n}

Directories(n) == SeqsUpTo(DirectoryEntries, n)

HeartbeatKeys == {ToString(i) : i \in MonitorIds}

RECURSIVE SumLen(_, _)
SumLen(f, keys) ==
    IF keys = {} THEN 0
    ELSE LET k == CHOOSE x \in keys : TRUE
         IN  Len(f[k]) + SumLen(f, keys \ {k})

TotalBeats(feed) == SumLen(feed, DOMAIN feed)

WithKey(feed, key, beats) ==
    [k \in DOMAIN feed \cup {key} |-> IF k = key THEN beats ELSE feed[k]]

\* the feeds over keys that hold at most n samples in all
RECURSIVE FeedsOver(_, _)
FeedsOver(keys, n) ==
    IF keys = {} THEN {EmptyDict}
    ELSE LET key  == CHOOSE x \in keys : TRUE
             rest == keys \ {key}
         IN  FeedsOver(rest, n) \cup
             UNION {{WithKey(feed, key, beats) :
                        feed \in FeedsOver(rest, n - m), beats \in [1..m -> StatusCodes]} :
                    m \in 0..n}

Feeds(n) == FeedsOver(HeartbeatKeys, n)

(***************************************************************************)
(* fetch_uptime_kuma_status: the pure part.                                *)
(***************************************************************************)
\* d[k] = v on an insertion-ordered dict kept as a list of <<key, value>>
DictSet(items, k, v) ==
    IF \E i \in DOMAIN items : items[i][1] = k
    THEN [i \in DOMAIN items |-> IF items[i][1] = k THEN <<k, v>> ELSE items[i]]
    ELSE Append(items, <<k, v>>)

\* monitor_id_to_name, built from the directory in list order
RECURSIVE MonitorIdToName(_)
MonitorIdToName(directory) ==
    IF directory = <<>> THEN <<>>
    ELSE LET before       == MonitorIdToName(SubSeq(directory, 1, Len(directory) - 1))
             monitor      == directory[Len(directory)]
             monitor_id   == ToString(monitor.id)
             monitor_name == monitor.name
         IN  IF monitor_id # "" /\ monitor_name # ""
             THEN DictSet(before, monitor_id, monitor_name)
             ELSE before

\* the code table of a heartbeat's status value
StatusOfCode(status_value) ==
    IF status_value = 1 THEN "online"
    ELSE IF status_value = 0 THEN "offline"
    ELSE IF status_value = 2 THEN "maintenance"
    ELSE "offline"

\* the oldest sample taken for the latest
LatestBeat_First(beats) == beats[1]

\* beats[-1]
LatestBeat(beats) == beats[Len(beats)]

\* monitor_statuses: one status per monitor id that has at least one heartbeat
MonitorStatuses(heartbeat_list) ==
    [monitor_id \in {k \in DOMAIN heartbeat_list : Len(heartbeat_list[k]) > 0} |->
        StatusOfCode(LatestBeat(heartbeat_list[monitor_id]))]

\* the loop over monitor_id_to_name without its break: the last match stays
FindMonitorId_LastMatch(id_to_name, monitor_name) ==
    LET hits == {i \in DOMAIN id_to_name : id_to_name[i][2] = monitor_name}
    IN  IF hits = {} THEN ""
        ELSE id_to_name[CHOOSE i \in hits : \A j \in hits : i >= j][1]

\* monitor_id left over from another program when no name matches
FindMonitorId_Leftover(id_to_name, monitor_name) ==
    LET hits == {i \in DOMAIN id_to_name : id_to_name[i][2] = monitor_name}
    IN  IF hits = {}
        THEN IF id_to_name = <<>> THEN "" ELSE id_to_name[1][1]
        ELSE id_to_name[CHOOSE i \in hits : \A j \in hits : i <= j][1]

\* the first monitor id whose name is monitor_name, "" (None) when there is none
FindMonitorId(id_to_name, monitor_name) ==
    LET hits == {i \in DOMAIN id_to_name : id_to_name[i][2] = monitor_name}
    IN  IF hits = {} THEN ""
        ELSE id_to_name[CHOOSE i \in hits : \A j \in hits : i <= j][1]

\* the else branch that assigns 'offline' left out
ProgramStatuses_Partial(id_to_name, monitor_statuses) ==
    [prog_id \in {p \in ProgramIds :
                    LET monitor_id == FindMonitorId(id_to_name, MonitorName(p))
                    IN  monitor_id # "" /\ monitor_id \in DOMAIN monitor_statuses} |->
        monitor_statuses[FindMonitorId(id_to_name, MonitorName(prog_id))]]

\* program_statuses: exactly one status per program
ProgramStatuses(id_to_name, monitor_statuses) ==
    [prog_id \in ProgramIds |->
        LET monitor_id == FindMonitorId(id_to_name, MonitorName(prog_id))
        IN  IF monitor_id # "" /\ monitor_id \in DOMAIN monitor_statuses
            THEN monitor_statuses[monitor_id]
            ELSE "offline"]

Reconcile(directory, heartbeat_list) ==
    ProgramStatuses(MonitorIdToName(directory), MonitorStatuses(heartbeat_list))

\* the responses a poll can get, seen through what fetch computes from each
PollDirectories == Directories(MaxPollInput)

PollFeeds == Feeds(MaxPollInput)

PollIdToNames == {MonitorIdToName(directory) : directory \in PollDirectories}

PollMonitorStatuses == {MonitorStatuses(heartbeat_list) : heartbeat_list \in PollFeeds}

(***************************************************************************)
(* update_status_loop and status: the pure parts.                          *)
(***************************************************************************)
\* the elif branch left out: a failed fetch always keeps the cache
UpdatedCache_NoColdFill(latest, cache) ==
    IF Truthy(latest) THEN latest.d ELSE cache

\* the cache after "if latest_status: ... elif not cached_program_status: ..."
UpdatedCache(latest, cache) ==
    IF Truthy(latest) THEN latest.d
    ELSE IF cache = EmptyDict THEN AllOffline
    ELSE cache

StatusEmoji(status) ==
    CASE status = "online"      -> "check"
      [] status = "offline"     -> "cross"
      [] status = "maintenance" -> "wrench"
      [] OTHER                  -> "question"

\* the <<program emoji, status emoji>> pairs joined into the activity name
StatusText(cache) ==
    LET keys == SelectSeq(ProgramOrder, LAMBDA prog_id : prog_id \in DOMAIN cache)
    IN  [i \in 1..Len(keys) |-> <<ProgramEmoji(keys[i]), StatusEmoji(cache[keys[i]])>>]

\* status_map.get(prog_status, 'Unknown')
StatusLabel(status) ==
    CASE status = "online"      -> "Online"
      [] status = "offline"     -> "Offline"
      [] status = "maintenance" -> "Maintenance"
      [] OTHER                  -> "Unknown"

\* the fields of the /status embed, one per item of the cache
StatusEmbed(cache) == [prog_id \in DOMAIN cache |-> StatusLabel(cache[prog_id])]

\* the check left out: status never polls
CacheIsCold_Never(cache) == FALSE

\* the check inverted into "always refresh"
CacheIsCold_Always(cache) == TRUE

\* "if not cached_program_status" in status
CacheIsCold(cache) == cache = EmptyDict

(***************************************************************************)
(* The settings store: server_settings, a dict guild id (string) ->        *)
(* {'channel': int, 'programs': [program id]}, either key possibly absent. *)
(***************************************************************************)
GuildIds == {1, 2}

GuildKeys == {ToString(g) : g \in GuildIds}

ChannelIds == {10, 20}

\* the guilds that use the bot in the runs on a disk whose writes can fail
FaultyDiskGuilds == {1}

FaultyDiskKeys == {ToString(g) : g \in FaultyDiskGuilds}

\* list(PROGRAMS.keys())
DefaultPrograms == ProgramOrder

\* {}: an entry with neither key
EmptyEntry == [has_channel |-> FALSE, channel |-> 0, has_programs |-> FALSE, programs |-> <<>>]

EmptySettings == [guild_id \in {} |-> EmptyEntry]

\* server_settings.json is a record of kind and doc: there is no file ("missing"), it
\* holds a document ("document"), open cannot read it ("unreadable"), or json.load
\* does not accept its body ("invalid")
NoFile == [kind |-> "missing", doc |-> EmptySettings]

UnreadableFile == [kind |-> "unreadable", doc |-> EmptySettings]

InvalidFile == [kind |-> "invalid", doc |-> EmptySettings]

\* load_settings has no handler: open or json.load raising ends the import of bot.py
LoadRaises(file) == file.kind \in {"unreadable", "invalid"}

\* load_settings when it returns: the document of the file, {} when there is no file
LoadSettings(file) == IF file.kind = "missing" THEN EmptySettings ELSE file.doc

\* save_settings when it returns: the whole document replaces the file
SaveSettings(settings) == [kind |-> "document", doc |-> settings]

\* how a call of save_settings can end: it returns; open(SETTINGS_FILE, 'w') raises
\* and the file is as it was; open has truncated the file and json.dump raises
WriteOutcomes == {"ok", "open_fails", "dump_fails"}

\* the file after save_settings(settings) ended as write
WriteSettings(file, settings, write) ==
    CASE write = "ok" -> SaveSettings(settings)
      [] write = "open_fails" -> file
      [] write = "dump_fails" -> InvalidFile

\* server_settings.get(guild_id, {})
EntryOf(settings, guild_id) ==
    IF guild_id \in DOMAIN settings THEN settings[guild_id] ELSE EmptyEntry

\* settings.get('programs'), an absent list read as no program at all
ProgramsOf_NoDefault(entry) == entry.programs

\* entry.get('programs', list(PROGRAMS.keys()))
ProgramsOf(entry) == IF entry.has_programs THEN entry.programs ELSE DefaultPrograms

\* entry.get('channel'), 0 standing for None
ChannelOf(settings, guild_id) ==
    LET entry == EntryOf(settings, guild_id)
    IN  IF entry.has_channel THEN entry.channel ELSE 0

InList(x, list) == \E i \in DOMAIN list : list[i] = x

\* list.remove(x): the first occurrence goes
Remove(list, x) ==
    LET first == CHOOSE i \in DOMAIN list : list[i] = x /\ \A j \in 1..(i - 1) : list[j] # x
    IN  SubSeq(list, 1, first - 1) \o SubSeq(list, first + 1, Len(list))

\* the toggle with its remove branch lost: the program is appended in either case
TogglePrefs_AppendOnly(current_prefs, program_id) == Append(current_prefs, program_id)

\* the toggle of button_callback on current_prefs
TogglePrefs(current_prefs, program_id) ==
    IF InList(program_id, current_prefs)
    THEN Remove(current_prefs, program_id)
    ELSE Append(current_prefs, program_id)

WithEntry(settings, guild_id, entry) ==
    [g \in DOMAIN settings \cup {guild_id} |-> IF g = guild_id THEN entry ELSE settings[g]]

\* the entry of the guild assigned afresh with the channel alone
SetChannel_FreshEntry(settings, guild_id, channel_id) ==
    WithEntry(settings, guild_id,
              [EmptyEntry EXCEPT !.has_channel = TRUE, !.channel = channel_id])

\* setup: server_settings[guild_id]['channel'] = channel.id, on {} when absent
SetChannel(settings, guild_id, channel_id) ==
    WithEntry(settings, guild_id,
              [EntryOf(settings, guild_id) EXCEPT !.has_channel = TRUE, !.channel = channel_id])

\* the entry of the guild assigned afresh with the programs alone
ToggleProgram_DropsChannel(settings, guild_id, program_id) ==
    WithEntry(settings, guild_id,
              [EmptyEntry EXCEPT !.has_programs = TRUE,
                                 !.programs = TogglePrefs(ProgramsOf(EntryOf(settings, guild_id)),
                                                          program_id)])

\* button_callback: server_settings[guild_id]['programs'] = the toggled list
ToggleProgram(settings, guild_id, program_id) ==
    WithEntry(settings, guild_id,
              [EntryOf(settings, guild_id) EXCEPT
                  !.has_programs = TRUE,
                  !.programs = TogglePrefs(ProgramsOf(EntryOf(settings, guild_id)), program_id)])

\* the buttons of ProgramSelectView shown green
SelectedButtons(current_prefs) == {prog_id \in ProgramIds : InList(prog_id, current_prefs)}

\* the programs a guild is subscribed to, as announce and the view read them
Subscribed(settings, guild_id) == SelectedButtons(ProgramsOf(EntryOf(settings, guild_id)))

\* the guilds the loop of /announce goes on to deliver to: a channel is set and,
\* when a program is named ("" standing for None), the guild is subscribed to it
AnnounceTargets(settings, program) ==
    {guild_id \in DOMAIN settings :
        /\ ChannelOf(settings, guild_id) # 0
        /\ program # "" => InList(program, ProgramsOf(settings[guild_id]))}

\* the loop of !announce passing over no guild for its programs list
TextAnnounceTargets_AllConfigured(settings, program_id) ==
    {guild_id \in DOMAIN settings : settings[guild_id].has_channel}

\* the same for the loop of the text command !announce
TextAnnounceTargets(settings, program_id) ==
    {guild_id \in DOMAIN settings :
        /\ settings[guild_id].has_channel
        /\ program_id # "" => InList(program_id, ProgramsOf(settings[guild_id]))}

\* what the delivery to one guild can come to: the embed is sent; get_guild returns
\* None and the guild is passed over; the channel is gone, closed to the bot, or
\* send raises
DeliveryOutcomes == {"sent", "no_guild", "failed"}

\* the outcomes of the deliveries an announcement attempts, one per target
Deliveries(targets) == [targets -> DeliveryOutcomes]

\* program_id of on_message: parts[1] when it is a program and a message follows it
TextProgram(n_args, first) == IF n_args > 1 /\ first \in ProgramIds THEN first ELSE ""

NoDuplicates(list) == \A i, j \in DOMAIN list : list[i] = list[j] => i = j

\* the documents the settings file can hold at startup: the file is written by
\* save_settings alone, and button_callback appends a program only when the list
\* lacks it, so the lists of a document hold no program twice
ProgramLists == {list \in SeqsUpTo(ProgramIds, MaxProgramList) : NoDuplicates(list)}

InitEntries ==
    {[has_channel |-> hc, channel |-> IF hc THEN c ELSE 0,
      has_programs |-> hp, programs |-> IF hp THEN l ELSE <<>>] :
        hc \in BOOLEAN, c \in ChannelIds, hp \in BOOLEAN, l \in ProgramLists}

InitDocuments == UNION {[K -> InitEntries] : K \in SUBSET GuildKeys}

InitFiles ==
    {NoFile, UnreadableFile, InvalidFile} \cup {SaveSettings(doc) : doc \in InitDocuments}

(***************************************************************************)
(* The update listener: requests, signatures and the check of them.        *)
(***************************************************************************)
SECRET == "sweetbroisaselfinsert"

\* request.data of the requests looked at
Bodies == {"", "ping", "push"}

\* the keys signatures are made with: the shared secret and a key of somebody else
SigningKeys == {SECRET, "guess"}

\* hmac.new(key, body, hashlib.sha256).hexdigest(): the digest stands for the key and
\* the body it was made of, two digests being equal when they were made of the same
HexDigest(key, body) == <<"hmac-sha256", key, body>>

\* request.headers.get('X-Hub-Signature-256') of a request without the header: None
NoHeader == [kind |-> "none", prefix |-> "", digest |-> <<>>]

\* the header holding prefix + digest
Header(prefix, digest) == [kind |-> "ascii", prefix |-> prefix, digest |-> digest]

\* the header sent with nothing in it
EmptyHeader == Header("", <<>>)

\* the header holding a character beyond ASCII
NonAsciiHeader == [kind |-> "non_ascii", prefix |-> "", digest |-> <<>>]

\* 'sha256=' + hmac.new(SECRET.encode(), request.data, hashlib.sha256).hexdigest()
Expected(body) == Header("sha256=", HexDigest(SECRET, body))

\* the values of the header looked at: none, empty, not ASCII, and a digest of any
\* body under either key, with the prefix or bare
Signatures ==
    {NoHeader, EmptyHeader, NonAsciiHeader}
        \cup {Header(prefix, HexDigest(key, body)) :
                 prefix \in {"sha256=", ""}, key \in SigningKeys, body \in Bodies}

\* if signature: None and '' are false
HasSignature(signature) == signature.kind # "none" /\ signature # EmptyHeader

\* hmac.compare_digest raises TypeError on a str that is not ASCII
CompareRaises(signature) == signature.kind = "non_ascii"

\* hmac.compare_digest(signature, expected) on ASCII strings
CompareDigest(signature, expected) == signature = expected

\* how handle_webhook deals with a request: "run" when it goes on to update.sh,
\* "unauthorized" when it returns 401, "error" when compare_digest raises
Verification(body, signature) ==
    IF ~HasSignature(signature)
    THEN "run"
    ELSE IF CompareRaises(signature)
         THEN "error"
         ELSE IF ~CompareDigest(signature, Expected(body))
              THEN "unauthorized"
              ELSE "run"

NoRequest == [body |-> "", signature |-> NoHeader]

(***************************************************************************)
(* State.                                                                  *)
(***************************************************************************)
\* the two coroutines that run update_status_loop: the tasks.loop and /status
Procs == {"loop", "status"}

VARIABLES
    configured,             \* UPTIME_KUMA_URL and UPTIME_KUMA_STATUS_PAGE_SLUG are set
    cached_program_status,  \* the global cache
    loop_started,           \* on_ready has started update_status_loop
    pc,                     \* where each coroutine is suspended
    monitor_id_to_name,     \* fetch's local, per coroutine
    latest_status,          \* what fetch returned, per coroutine
    fetch_outcome,          \* how that fetch ended, per coroutine
    presence,               \* the activity name last passed to change_presence
    response,               \* the embed sent for the /status being handled
    poll_completed,         \* some run of update_status_loop has updated the cache
    cache_was_cold,         \* the last such update found the cache empty
    rc_directory,           \* reconciliation alone: the directory,
    rc_heartbeats,          \*   the heartbeat feed,
    rc_monitor_statuses,    \*   monitor_statuses,
    rc_program_statuses,    \*   and the returned program_statuses
    rc_done,
    server_settings,        \* the settings in memory
    settings_file,          \* server_settings.json
    views,                  \* the guilds with a ProgramSelectView on screen
    reply,                  \* the reply to the last settings command or button press
    startup,                \* the import of bot.py: "importing", "running", "failed"
    failed_writes,          \* the calls of save_settings that raised since the last
                            \*   one that returned
    disk,                   \* the disk of the run: "sound", or "faulty" when writes
                            \*   to it can fail
    webhook_request,        \* the POST /update being handled, or the last one handled
    webhook_pc,             \* the listener: "idle", or "updating" inside subprocess.run
    webhook_response,       \* the status code of the last response, 0 before any
    update_runs             \* the times update.sh was started

pollVars == <<configured, cached_program_status, loop_started, pc, monitor_id_to_name,
              latest_status, fetch_outcome, presence, response, poll_completed,
              cache_was_cold>>

reconcileVars == <<rc_directory, rc_heartbeats, rc_monitor_statuses,
                   rc_program_statuses, rc_done>>

settingsVars == <<server_settings, settings_file, views, reply, startup, failed_writes,
                  disk>>

webhookVars == <<webhook_request, webhook_pc, webhook_response, update_runs>>

vars == <<pollVars, reconcileVars, settingsVars, webhookVars>>

NoResponse == [sent |-> FALSE, fields |-> EmptyDict]

PollInit ==
    /\ cached_program_status = EmptyDict
    /\ loop_started = FALSE
    /\ pc = [p \in Procs |-> "idle"]
    /\ monitor_id_to_name = [p \in Procs |-> <<>>]
    /\ latest_status = [p \in Procs |-> NoneStatus]
    /\ fetch_outcome = [p \in Procs |-> "none"]
    /\ presence = <<>>
    /\ response = NoResponse
    /\ poll_completed = FALSE
    /\ cache_was_cold = FALSE

ReconcileIdle ==
    /\ rc_directory = <<>>
    /\ rc_heartbeats = EmptyDict
    /\ rc_monitor_statuses = EmptyDict
    /\ rc_program_statuses = EmptyDict
    /\ rc_done = FALSE

NoReply == [command |-> "none", kind |-> "none", guild_id |-> "", channel |-> 0,
            program |-> "", selected |-> {}, targets |-> {}, sent |-> {},
            failed_count |-> 0]

SettingsIdle ==
    /\ settings_file = NoFile
    /\ server_settings = LoadSettings(settings_file)
    /\ views = {}
    /\ reply = NoReply
    /\ startup = "running"
    /\ failed_writes = 0
    /\ disk = "sound"

\* no request has reached the listener
WebhookIdle ==
    /\ webhook_request = NoRequest
    /\ webhook_pc = "idle"
    /\ webhook_response = 0
    /\ update_runs = 0

Init ==
    /\ configured \in BOOLEAN
    /\ PollInit
    /\ ReconcileIdle
    /\ SettingsIdle
    /\ WebhookIdle

(***************************************************************************)
(* The coroutines.  A step runs from one suspension point to the next.     *)
(***************************************************************************)
\* on_ready: update_status_loop.start()
OnReady ==
    /\ ~loop_started
    /\ loop_started' = TRUE
    /\ UNCHANGED <<configured, cached_program_status, pc, monitor_id_to_name,
                   latest_status, fetch_outcome, presence, response, poll_completed,
                   cache_was_cold>>
    /\ UNCHANGED <<reconcileVars, settingsVars, webhookVars>>

\* the activity name built before the cache is assigned
UpdateStatus_PublishesFirst(p, latest, outcome) ==
    /\ cached_program_status' = UpdatedCache(latest, cached_program_status)
    /\ presence' = StatusText(cached_program_status)
    /\ poll_completed' = TRUE
    /\ cache_was_cold' = (cached_program_status = EmptyDict)
    /\ pc' = [pc EXCEPT ![p] = "presence"]
    /\ monitor_id_to_name' = [monitor_id_to_name EXCEPT ![p] = <<>>]
    /\ latest_status' = [latest_status EXCEPT ![p] = NoneStatus]
    /\ fetch_outcome' = [fetch_outcome EXCEPT ![p] = outcome]

\* update_status_loop from the return of fetch to the call of change_presence
UpdateStatus(p, latest, outcome) ==
    /\ cached_program_status' = UpdatedCache(latest, cached_program_status)
    /\ presence' = StatusText(cached_program_status')
    /\ poll_completed' = TRUE
    /\ cache_was_cold' = (cached_program_status = EmptyDict)
    /\ pc' = [pc EXCEPT ![p] = "presence"]
    /\ monitor_id_to_name' = [monitor_id_to_name EXCEPT ![p] = <<>>]
    /\ latest_status' = [latest_status EXCEPT ![p] = NoneStatus]
    /\ fetch_outcome' = [fetch_outcome EXCEPT ![p] = outcome]

\* fetch without its handlers: a network error of the directory request leaves fetch
\* and update_status_loop as an exception, and the run ends without an update
Fetched_Escapes(p, latest, outcome) ==
    IF outcome = "directory_network_error"
    THEN /\ pc' = [pc EXCEPT ![p] = IF p = "loop" THEN "stopped" ELSE "idle"]
         /\ fetch_outcome' = [fetch_outcome EXCEPT ![p] = outcome]
         /\ UNCHANGED <<cached_program_status, presence, poll_completed, cache_was_cold,
                        monitor_id_to_name, latest_status>>
    ELSE /\ pc' = [pc EXCEPT ![p] = "fetched"]
         /\ monitor_id_to_name' = [monitor_id_to_name EXCEPT ![p] = <<>>]
         /\ latest_status' = [latest_status EXCEPT ![p] = latest]
         /\ fetch_outcome' = [fetch_outcome EXCEPT ![p] = outcome]
         /\ UNCHANGED <<cached_program_status, presence, poll_completed, cache_was_cold>>

\* fetch returned and its sessions are being closed
Fetched(p, latest, outcome) ==
    /\ pc' = [pc EXCEPT ![p] = "fetched"]
    /\ monitor_id_to_name' = [monitor_id_to_name EXCEPT ![p] = <<>>]
    /\ latest_status' = [latest_status EXCEPT ![p] = latest]
    /\ fetch_outcome' = [fetch_outcome EXCEPT ![p] = outcome]
    /\ UNCHANGED <<cached_program_status, presence, poll_completed, cache_was_cold>>

\* fetch without its configuration check: the directory request is always made
StartPoll_NoConfigCheck(p) ==
    /\ pc' = [pc EXCEPT ![p] = "directory"]
    /\ fetch_outcome' = [fetch_outcome EXCEPT ![p] = "none"]
    /\ UNCHANGED <<cached_program_status, presence, poll_completed, cache_was_cold,
                   monitor_id_to_name, latest_status>>

\* update_status_loop up to the first request of fetch_uptime_kuma_status
StartPoll(p) ==
    IF ~configured
    THEN UpdateStatus(p, NoneStatus, "not_configured")
    ELSE /\ pc' = [pc EXCEPT ![p] = "directory"]
         /\ fetch_outcome' = [fetch_outcome EXCEPT ![p] = "none"]
         /\ UNCHANGED <<cached_program_status, presence, poll_completed, cache_was_cold,
                        monitor_id_to_name, latest_status>>

\* a tick of tasks.loop(minutes=1): the previous run has returned
LoopTick ==
    /\ loop_started
    /\ pc["loop"] = "idle"
    /\ StartPoll("loop")
    /\ UNCHANGED <<configured, loop_started, response>>
    /\ UNCHANGED <<reconcileVars, settingsVars, webhookVars>>

\* /status is received: ctx.defer()
StatusCommand ==
    /\ pc["status"] = "idle"
    /\ pc' = [pc EXCEPT !["status"] = "deferred"]
    /\ response' = NoResponse
    /\ fetch_outcome' = [fetch_outcome EXCEPT !["status"] = "none"]
    /\ UNCHANGED <<configured, cached_program_status, loop_started, monitor_id_to_name,
                   latest_status, presence, poll_completed, cache_was_cold>>
    /\ UNCHANGED <<reconcileVars, settingsVars, webhookVars>>

\* status from the embed to ctx.followup.send
SendStatus ==
    /\ response' = [sent |-> TRUE, fields |-> StatusEmbed(cached_program_status)]
    /\ pc' = [pc EXCEPT !["status"] = "idle"]
    /\ UNCHANGED <<cached_program_status, monitor_id_to_name, latest_status, fetch_outcome,
                   presence,
                   poll_completed, cache_was_cold>>

\* status after the defer: the cache check
StatusCheck ==
    /\ pc["status"] = "deferred"
    /\ IF CacheIsCold(cached_program_status)
       THEN StartPoll("status") /\ UNCHANGED response
       ELSE SendStatus
    /\ UNCHANGED <<configured, loop_started>>
    /\ UNCHANGED <<reconcileVars, settingsVars, webhookVars>>

\* the response of GET /api/status-page/{slug}
DirectoryResponse(p) ==
    /\ pc[p] = "directory"
    /\ \/ Fetched(p, Some(AllOffline), "directory_network_error")
       \/ Fetched(p, NoneStatus, "directory_http_error")
       \/ Fetched(p, Some(AllOffline), "directory_malformed")
       \/ \E id_to_name \in PollIdToNames :
            /\ pc' = [pc EXCEPT ![p] = "heartbeat"]
            /\ monitor_id_to_name' = [monitor_id_to_name EXCEPT ![p] = id_to_name]
            /\ UNCHANGED <<cached_program_status, presence, poll_completed, cache_was_cold,
                           latest_status, fetch_outcome>>
    /\ UNCHANGED <<configured, loop_started, response>>
    /\ UNCHANGED <<reconcileVars, settingsVars, webhookVars>>

\* a failed heartbeat call returning None, as the failed directory call does
HeartbeatFailureResult_None == NoneStatus

\* what fetch returns when the heartbeat call fails: every program offline
HeartbeatFailureResult == Some(AllOffline)

\* the response of GET /api/status-page/heartbeat/{slug}
HeartbeatResponse(p) ==
    /\ pc[p] = "heartbeat"
    /\ \/ Fetched(p, HeartbeatFailureResult, "heartbeat_network_error")
       \/ Fetched(p, HeartbeatFailureResult, "heartbeat_http_error")
       \/ Fetched(p, HeartbeatFailureResult, "heartbeat_malformed")
       \/ \E monitor_statuses \in PollMonitorStatuses :
            Fetched(p, Some(ProgramStatuses(monitor_id_to_name[p], monitor_statuses)), "ok")
    /\ UNCHANGED <<configured, loop_started, response>>
    /\ UNCHANGED <<reconcileVars, settingsVars, webhookVars>>

\* fetch has returned to update_status_loop
CacheUpdate(p) ==
    /\ pc[p] = "fetched"
    /\ UpdateStatus(p, latest_status[p], fetch_outcome[p])
    /\ UNCHANGED <<configured, loop_started, response>>
    /\ UNCHANGED <<reconcileVars, settingsVars, webhookVars>>

\* change_presence returned: the loop sleeps until the next tick, status replies
PresenceDone(p) ==
    /\ pc[p] = "presence"
    /\ IF p = "status"
       THEN SendStatus
       ELSE /\ pc' = [pc EXCEPT ![p] = "idle"]
            /\ fetch_outcome' = [fetch_outcome EXCEPT ![p] = "none"]
            /\ UNCHANGED <<cached_program_status, monitor_id_to_name, latest_status,
                           presence, poll_completed, cache_was_cold, response>>
    /\ UNCHANGED <<configured, loop_started>>
    /\ UNCHANGED <<reconcileVars, settingsVars, webhookVars>>

\* change_presence raised: the loop retries or stops, status sends nothing
PresenceFailed(p) ==
    /\ pc[p] = "presence"
    /\ \E next \in (IF p = "loop" THEN {"idle", "stopped"} ELSE {"idle"}) :
         pc' = [pc EXCEPT ![p] = next]
    /\ fetch_outcome' = [fetch_outcome EXCEPT ![p] = "none"]
    /\ UNCHANGED <<configured, cached_program_status, loop_started, monitor_id_to_name,
                   latest_status, presence, response, poll_completed,
                   cache_was_cold>>
    /\ UNCHANGED <<reconcileVars, settingsVars, webhookVars>>

Next ==
    \/ OnReady
    \/ LoopTick
    \/ StatusCommand
    \/ StatusCheck
    \/ \E p \in Procs : DirectoryResponse(p)
    \/ \E p \in Procs : HeartbeatResponse(p)
    \/ \E p \in Procs : CacheUpdate(p)
    \/ \E p \in Procs : PresenceDone(p)
    \/ \E p \in Procs : PresenceFailed(p)

Spec == Init /\ [][Next]_vars

(***************************************************************************)
(* Reconciliation alone, over every directory and heartbeat feed up to     *)
(* MaxInputSize.                                                           *)
(***************************************************************************)
\* one more input, beyond MaxInputSize: the three programs listed under the monitor
\* ids 1, 2, 3, whose last heartbeats are up, down and maintenance
ScenarioDirectory ==
    <<[id |-> 1, name |-> "Quinnflix"], [id |-> 2, name |-> "Vintage Studio Code"],
      [id |-> 3, name |-> "Sugarcraft"]>>

ScenarioHeartbeats == [monitor_id \in {"1", "2", "3"} |->
                          CASE monitor_id = "1" -> <<0, 1>>
                            [] monitor_id = "2" -> <<1, 0>>
                            [] monitor_id = "3" -> <<1, 2>>]

ReconcileInit ==
    /\ configured = TRUE
    /\ PollInit
    /\ \/ \E k \in 0..MaxInputSize :
            /\ rc_directory \in [1..k -> DirectoryEntries]
            /\ rc_heartbeats \in Feeds(MaxInputSize - k)
       \/ /\ rc_directory = ScenarioDirectory
          /\ rc_heartbeats = ScenarioHeartbeats
    /\ rc_monitor_statuses = EmptyDict
    /\ rc_program_statuses = EmptyDict
    /\ rc_done = FALSE
    /\ SettingsIdle
    /\ WebhookIdle

\* lines 107-171 of fetch_uptime_kuma_status on the two parsed bodies
ReconcileStep ==
    /\ ~rc_done
    /\ rc_monitor_statuses' = MonitorStatuses(rc_heartbeats)
    /\ rc_program_statuses' = Reconcile(rc_directory, rc_heartbeats)
    /\ rc_done' = TRUE
    /\ UNCHANGED <<rc_directory, rc_heartbeats>>
    /\ UNCHANGED <<pollVars, settingsVars, webhookVars>>

ReconcileNext == ReconcileStep

ReconcileSpec == ReconcileInit /\ [][ReconcileNext]_vars

(***************************************************************************)
(* The settings commands.                                                  *)
(***************************************************************************)
\* bot.py is being imported with any startup file.  The runs come in two kinds: on
\* a sound disk every write goes through and every guild of GuildIds uses the bot;
\* on a faulty disk writes can fail, and the guilds of FaultyDiskGuilds alone use
\* the bot and have settings in the startup file.
SettingsInit ==
    /\ configured = TRUE
    /\ PollInit
    /\ ReconcileIdle
    /\ disk \in {"sound", "faulty"}
    /\ settings_file \in InitFiles
    /\ disk = "faulty" => DOMAIN settings_file.doc \subseteq FaultyDiskKeys
    /\ server_settings = EmptySettings
    /\ views = {}
    /\ reply = NoReply
    /\ startup = "importing"
    /\ failed_writes = 0
    /\ WebhookIdle

\* server_settings = load_settings() at the import of bot.py
LoadAtStartup ==
    /\ startup = "importing"
    /\ IF LoadRaises(settings_file)
       THEN /\ startup' = "failed"
            /\ UNCHANGED server_settings
       ELSE /\ startup' = "running"
            /\ server_settings' = LoadSettings(settings_file)
    /\ UNCHANGED <<settings_file, views, reply, failed_writes, disk>>
    /\ UNCHANGED <<pollVars, reconcileVars, webhookVars>>

Denied(command, guild_id) ==
    [NoReply EXCEPT !.command = command, !.kind = "denied", !.guild_id = guild_id]

\* save_settings can end as write: a call that raises is one more in a row
CanWrite(write) == write = "ok" \/ (disk = "faulty" /\ failed_writes < MaxFailedWrites)

\* the guild uses the bot in this run
Active(guild) == disk = "sound" \/ guild \in FaultyDiskGuilds

\* the reply with the exception of save_settings caught and dropped
ReplyAfterSave_ErrorSwallowed(write, ack) == ack

\* the handler calls save_settings before it replies: when save_settings raises, the
\* exception leaves the handler and the acknowledgement ack is never sent
ReplyAfterSave(write, ack) ==
    IF write = "ok"
    THEN ack
    ELSE [NoReply EXCEPT !.command = ack.command, !.kind = "error",
                         !.guild_id = ack.guild_id, !.program = ack.program]

\* /setup channel
Setup(guild, channel_id, manage_channels, write) ==
    LET guild_id == ToString(guild)
    IN  /\ startup = "running"
        /\ Active(guild)
        /\ IF ~manage_channels
           THEN /\ write = "ok"
                /\ reply' = Denied("setup", guild_id)
                /\ UNCHANGED <<server_settings, settings_file, failed_writes>>
           ELSE /\ CanWrite(write)
                /\ server_settings' = SetChannel(server_settings, guild_id, channel_id)
                /\ settings_file' = WriteSettings(settings_file, server_settings', write)
                /\ failed_writes' = IF write = "ok" THEN 0 ELSE failed_writes + 1
                /\ reply' = ReplyAfterSave(write,
                                [NoReply EXCEPT !.command = "setup", !.kind = "setup_ok",
                                                !.guild_id = guild_id,
                                                !.channel = channel_id])
        /\ UNCHANGED <<views, startup, disk>>
        /\ UNCHANGED <<pollVars, reconcileVars, webhookVars>>

\* /programs: a ProgramSelectView is built from the preferences and shown
Programs(guild, manage_channels) ==
    LET guild_id == ToString(guild)
    IN  /\ startup = "running"
        /\ Active(guild)
        /\ IF ~manage_channels
           THEN /\ reply' = Denied("programs", guild_id)
                /\ UNCHANGED views
           ELSE /\ views' = views \cup {guild_id}
                /\ reply' = [NoReply EXCEPT
                               !.command = "programs", !.kind = "view",
                               !.guild_id = guild_id,
                               !.selected = SelectedButtons(
                                   ProgramsOf(EntryOf(server_settings, guild_id)))]
        /\ UNCHANGED <<server_settings, settings_file, startup, failed_writes, disk>>
        /\ UNCHANGED <<pollVars, reconcileVars, webhookVars>>

\* ProgramSelectView.button_callback for the button of program_id
ButtonCallback(guild_id, program_id, manage_channels, write) ==
    /\ startup = "running"
    /\ guild_id \in views
    /\ IF ~manage_channels
       THEN /\ write = "ok"
            /\ reply' = Denied("button", guild_id)
            /\ UNCHANGED <<server_settings, settings_file, failed_writes>>
       ELSE /\ CanWrite(write)
            /\ server_settings' = ToggleProgram(server_settings, guild_id, program_id)
            /\ settings_file' = WriteSettings(settings_file, server_settings', write)
            /\ failed_writes' = IF write = "ok" THEN 0 ELSE failed_writes + 1
            /\ reply' = ReplyAfterSave(write,
                            [NoReply EXCEPT
                               !.command = "button", !.kind = "view_updated",
                               !.guild_id = guild_id, !.program = program_id,
                               !.selected =
                                   SelectedButtons(server_settings'[guild_id].programs)])
    /\ UNCHANGED <<views, startup, disk>>
    /\ UNCHANGED <<pollVars, reconcileVars, webhookVars>>

\* a ProgramSelectView times out (timeout=300): its buttons call back no more
ViewTimeout(guild_id) ==
    /\ startup = "running"
    /\ guild_id \in views
    /\ views' = views \ {guild_id}
    /\ UNCHANGED <<server_settings, settings_file, reply, startup, failed_writes, disk>>
    /\ UNCHANGED <<pollVars, reconcileVars, webhookVars>>

\* the followup of an announcement that went to targets under the outcomes delivery
Announced(command, program, targets, delivery) ==
    [NoReply EXCEPT
        !.command = command, !.kind = "announced", !.program = program,
        !.targets = targets,
        !.sent = {guild_id \in targets : delivery[guild_id] = "sent"},
        !.failed_count = Cardinality({guild_id \in targets : delivery[guild_id] = "failed"})]

\* /announce message [program]
Announce(program, is_owner, delivery) ==
    /\ startup = "running"
    /\ reply' = IF ~is_owner
                THEN Denied("announce", "")
                ELSE Announced("announce", program,
                               AnnounceTargets(server_settings, program), delivery)
    /\ UNCHANGED <<server_settings, settings_file, views, startup, failed_writes, disk>>
    /\ UNCHANGED <<pollVars, reconcileVars, webhookVars>>

\* on_message for "!announce" followed by n_args words, the first of them being first
TextAnnounce(n_args, first, is_owner, delivery) ==
    /\ startup = "running"
    /\ IF ~is_owner
       THEN UNCHANGED reply
       ELSE IF n_args = 0
            THEN reply' = [NoReply EXCEPT !.command = "text_announce", !.kind = "usage"]
            ELSE reply' = Announced("text_announce", TextProgram(n_args, first),
                                    TextAnnounceTargets(server_settings,
                                                        TextProgram(n_args, first)),
                                    delivery)
    /\ UNCHANGED <<server_settings, settings_file, views, startup, failed_writes, disk>>
    /\ UNCHANGED <<pollVars, reconcileVars, webhookVars>>

SettingsNext ==
    \/ LoadAtStartup
    \/ \E guild \in GuildIds, channel_id \in ChannelIds, manage_channels \in BOOLEAN,
          write \in WriteOutcomes :
         Setup(guild, channel_id, manage_channels, write)
    \/ \E guild \in GuildIds, manage_channels \in BOOLEAN :
         Programs(guild, manage_channels)
    \/ \E guild_id \in GuildKeys, program_id \in ProgramIds, manage_channels \in BOOLEAN,
          write \in WriteOutcomes :
         ButtonCallback(guild_id, program_id, manage_channels, write)
    \/ \E guild_id \in GuildKeys : ViewTimeout(guild_id)

SettingsSpec == SettingsInit /\ [][SettingsNext]_vars

\* the commands that read the settings and leave them alone, over the startup documents
AnnounceNext ==
    \/ LoadAtStartup
    \/ \E guild \in GuildIds, manage_channels \in BOOLEAN :
         Programs(guild, manage_channels)
    \/ \E guild_id \in GuildKeys : ViewTimeout(guild_id)
    \/ \E program \in ProgramIds \cup {""}, is_owner \in BOOLEAN :
         \E delivery \in Deliveries(IF is_owner
                                    THEN AnnounceTargets(server_settings, program)
                                    ELSE {}) :
            Announce(program, is_owner, delivery)
    \/ \E n_args \in 0..2, first \in ProgramIds \cup {"Hello"}, is_owner \in BOOLEAN :
         \E delivery \in Deliveries(IF is_owner /\ n_args > 0
                                    THEN TextAnnounceTargets(server_settings,
                                                             TextProgram(n_args, first))
                                    ELSE {}) :
            TextAnnounce(n_args, first, is_owner, delivery)

AnnounceSpec == SettingsInit /\ [][AnnounceNext]_vars

(***************************************************************************)
(* The update listener, one request at a time.                             *)
(***************************************************************************)
\* handle_webhook from the request to its 401, to the error of compare_digest (which
\* Flask answers 500), or into subprocess.run
HandleWebhook(body, signature) ==
    /\ webhook_pc = "idle"
    /\ webhook_request' = [body |-> body, signature |-> signature]
    /\ LET verification == Verification(body, signature)
       IN  \/ /\ verification = "unauthorized"
              /\ webhook_response' = 401
              /\ UNCHANGED <<webhook_pc, update_runs>>
           \/ /\ verification = "error"
              /\ webhook_response' = 500
              /\ UNCHANGED <<webhook_pc, update_runs>>
           \/ /\ verification = "run"
              /\ update_runs < MaxUpdateRuns
              /\ update_runs' = update_runs + 1
              /\ webhook_pc' = "updating"
              /\ webhook_response' = 0
    /\ UNCHANGED <<pollVars, reconcileVars, settingsVars>>

\* update.sh ends, whatever its exit status: return 'OK', 200
UpdateFinished ==
    /\ webhook_pc = "updating"
    /\ webhook_pc' = "idle"
    /\ webhook_response' = 200
    /\ UNCHANGED <<webhook_request, update_runs>>
    /\ UNCHANGED <<pollVars, reconcileVars, settingsVars>>

WebhookInit ==
    /\ configured = TRUE
    /\ PollInit
    /\ ReconcileIdle
    /\ SettingsIdle
    /\ WebhookIdle

WebhookNext ==
    \/ \E body \in Bodies, signature \in Signatures : HandleWebhook(body, signature)
    \/ UpdateFinished

WebhookSpec == WebhookInit /\ [][WebhookNext]_vars

(***************************************************************************)
(* Properties of the polling loop and of /status.                          *)
(***************************************************************************)
DirectoryFailures ==
    {"directory_network_error", "directory_http_error", "directory_malformed"}

HeartbeatFailures ==
    {"heartbeat_network_error", "heartbeat_http_error", "heartbeat_malformed"}

\* p's run of update_status_loop updates the cache in this step
UpdatesCache(p) == pc[p] # "presence" /\ pc'[p] = "presence"

\* p is between the start of its fetch and its write to the cache
InPoll(p) == pc[p] \in {"directory", "heartbeat", "fetched"}

Complete(snapshot) ==
    /\ DOMAIN snapshot = ProgramIds
    /\ \A prog_id \in ProgramIds : snapshot[prog_id] \in Statuses

\* C1: when a tick's fetch fails at the directory call (network error or timeout,
\* non-success response, malformed body) and the cache is non-empty, the cache after
\* the tick is the cache before it (stated for ticks that end while no /status is
\* being handled).
C1_FallbackLaw ==
    [][(/\ UpdatesCache("loop")
        /\ pc["status"] = "idle"
        /\ fetch_outcome'["loop"] \in DirectoryFailures
        /\ cached_program_status # EmptyDict)
       => cached_program_status' = cached_program_status]_vars

\* C2: when a poll's fetch fails in any way, missing configuration included, and the
\* cache is empty, the cache after the poll has exactly the tracked programs as keys
\* and maps each of them to offline.
C2_ColdStartLaw ==
    [][\A p \in Procs :
         (/\ UpdatesCache(p)
          /\ fetch_outcome'[p] # "ok"
          /\ cached_program_status = EmptyDict)
         => /\ DOMAIN cached_program_status' = ProgramIds
            /\ \A prog_id \in ProgramIds : cached_program_status'[prog_id] = "offline"]_vars

C2_Witness ==
    /\ pc["loop"] = "presence"
    /\ fetch_outcome["loop"] = "directory_http_error"
    /\ cache_was_cold
    /\ cached_program_status = AllOffline

\* C3: the cache is either empty, and then no poll has completed, or it has exactly
\* the tracked programs as keys with every value online, offline or maintenance.
C3_SnapshotShape ==
    \/ cached_program_status = EmptyDict /\ ~poll_completed
    \/ Complete(cached_program_status)

C3_Witness ==
    /\ InPoll("loop")
    /\ InPoll("status")
    /\ Complete(cached_program_status)
    /\ \E prog_id \in ProgramIds : cached_program_status[prog_id] = "maintenance"

\* C4: every response sent for a /status has exactly one field per tracked program,
\* each showing online, offline or maintenance.
C4_StatusResponseComplete ==
    response.sent =>
        /\ DOMAIN response.fields = ProgramIds
        /\ \A prog_id \in ProgramIds :
             response.fields[prog_id] \in {"Online", "Offline", "Maintenance"}

C4_Witness ==
    /\ response.sent
    /\ ~loop_started
    /\ fetch_outcome["status"] = "ok"
    /\ \E prog_id \in ProgramIds : response.fields[prog_id] = "Online"

\* C5: the poll started by /status and a tick of the loop are never both between the
\* start of their fetch and their write to the cache.
C5_PollsSerialized == ~(InPoll("loop") /\ InPoll("status"))

\* C6: the cache changes only in the cache update of a poll; a /status that finds the
\* cache non-empty replies without fetching and leaves the cache as it is; a /status
\* starts a poll only from its cache check, when the cache is empty, and after that
\* poll it only replies.
C6_SingleWriterFrame ==
    [][/\ cached_program_status' # cached_program_status
            => \E p \in Procs : UpdatesCache(p)
       /\ (/\ pc["status"] = "deferred"
           /\ pc'["status"] # "deferred"
           /\ cached_program_status # EmptyDict)
            => /\ pc'["status"] = "idle"
               /\ response'.sent
               /\ cached_program_status' = cached_program_status
       /\ (pc["status"] # pc'["status"] /\ pc'["status"] = "directory")
            => pc["status"] = "deferred" /\ cached_program_status = EmptyDict
       /\ UpdatesCache("status")
            => \/ pc["status"] = "fetched"
               \/ pc["status"] = "deferred" /\ cached_program_status = EmptyDict
       /\ (pc["status"] = "presence" /\ pc'["status"] # "presence")
            => pc'["status"] = "idle"
       /\ (pc["status"] # "deferred" /\ pc'["status"] = "deferred")
            => pc["status"] = "idle"]_vars

C6_Witness ==
    /\ response.sent
    /\ fetch_outcome["status"] = "none"
    /\ poll_completed
    /\ InPoll("loop")

(***************************************************************************)
(* Properties of reconciliation.                                           *)
(***************************************************************************)
\* C7: whatever the directory and the heartbeat feed, the keys of the reconciled
\* snapshot are exactly the tracked programs.
C7_ReconcileCardinality ==
    rc_done => DOMAIN rc_program_statuses = ProgramIds

C7_Witness ==
    /\ rc_done
    /\ \E i \in DOMAIN rc_directory : rc_directory[i].name = "Other"
    /\ \E prog_id \in ProgramIds : rc_program_statuses[prog_id] = "online"

\* C8: a monitor with heartbeats gets the status of its last sample: online for 1,
\* offline for 0, maintenance for 2, offline for anything else or no code.
C8_HeartbeatCodeTable ==
    rc_done =>
        \A monitor_id \in DOMAIN rc_heartbeats :
            LET beats == rc_heartbeats[monitor_id]
                last  == beats[Len(beats)]
            IN  Len(beats) > 0 =>
                    /\ monitor_id \in DOMAIN rc_monitor_statuses
                    /\ last = 1 => rc_monitor_statuses[monitor_id] = "online"
                    /\ last = 0 => rc_monitor_statuses[monitor_id] = "offline"
                    /\ last = 2 => rc_monitor_statuses[monitor_id] = "maintenance"
                    /\ last \notin {0, 1, 2} => rc_monitor_statuses[monitor_id] = "offline"

C8_Witness ==
    /\ rc_done
    /\ \E monitor_id \in DOMAIN rc_heartbeats :
         /\ rc_heartbeats[monitor_id] = <<1, 2>>
         /\ rc_monitor_statuses[monitor_id] = "maintenance"

\* C9: a program whose monitor name is in no entry of the directory is offline,
\* whatever the heartbeat feed holds.
C9_OmittedNameOffline ==
    rc_done =>
        \A prog_id \in ProgramIds :
            (\A i \in DOMAIN rc_directory : rc_directory[i].name # MonitorName(prog_id))
                => rc_program_statuses[prog_id] = "offline"

C9_Witness ==
    /\ rc_done
    /\ \E i \in DOMAIN rc_directory :
         /\ rc_directory[i].name = "Other"
         /\ ToString(rc_directory[i].id) \in DOMAIN rc_monitor_statuses
         /\ rc_monitor_statuses[ToString(rc_directory[i].id)] = "online"
    /\ \A prog_id \in ProgramIds : rc_program_statuses[prog_id] = "offline"

\* C15: when the directory call of a poll succeeds and its heartbeat call fails
\* (non-200 response, network error or timeout, malformed body), fetch returns the
\* dict with every tracked program offline, not None, and the poll replaces the cache
\* by it, a non-empty cache included.
C15_HeartbeatSentinel ==
    [][\A p \in Procs :
         /\ (pc[p] = "heartbeat" /\ fetch_outcome'[p] \in HeartbeatFailures) =>
              /\ pc'[p] = "fetched"
              /\ latest_status'[p].some
              /\ DOMAIN latest_status'[p].d = ProgramIds
              /\ \A prog_id \in ProgramIds : latest_status'[p].d[prog_id] = "offline"
         /\ (UpdatesCache(p) /\ fetch_outcome'[p] \in HeartbeatFailures) =>
              /\ DOMAIN cached_program_status' = ProgramIds
              /\ \A prog_id \in ProgramIds : cached_program_status'[prog_id] = "offline"]_vars

C15_Witness ==
    /\ pc["loop"] = "presence"
    /\ fetch_outcome["loop"] = "heartbeat_http_error"
    /\ ~cache_was_cold
    /\ pc["status"] = "idle"
    /\ response.sent
    /\ response.fields["quinnflix"] = "Online"
    /\ cached_program_status = [prog_id \in ProgramIds |-> "offline"]

\* the step of p's poll that comes next: a response, or the return of fetch
PollStep(p) == DirectoryResponse(p) \/ HeartbeatResponse(p) \/ CacheUpdate(p)

\* how far p's poll has come
PollRank(at) ==
    CASE at = "directory" -> 1
      [] at = "heartbeat" -> 2
      [] at = "fetched" -> 3
      [] at = "presence" -> 4
      [] OTHER -> 0

\* C16: whatever the outcomes of the directory and heartbeat calls (both requests
\* carry timeout=10, so each ends with a response or an exception), a poll that has
\* started its fetch always has a next step, each of its steps brings it nearer to
\* the cache update and none ends it before that update; once a poll has updated the
\* cache, the cache has exactly one status per tracked program in every later state
\* and is never empty again.
C16_TicksComplete ==
    /\ [](\A p \in Procs : InPoll(p) => ENABLED PollStep(p))
    /\ [][\A p \in Procs :
            (InPoll(p) /\ pc'[p] # pc[p]) => PollRank(pc'[p]) > PollRank(pc[p])]_vars
    /\ [](poll_completed => (Complete(cached_program_status)
                              /\ cached_program_status # EmptyDict))
    /\ [][poll_completed => poll_completed']_vars

C16_Witness ==
    /\ pc["loop"] = "presence"
    /\ fetch_outcome["loop"] = "heartbeat_network_error"
    /\ pc["status"] = "presence"
    /\ fetch_outcome["status"] = "directory_network_error"
    /\ poll_completed
    /\ Complete(cached_program_status)

\* the status the code table gives the last heartbeat of monitor_id, offline when
\* the feed has no heartbeat of it
LastBeatStatus(heartbeat_list, monitor_id) ==
    IF monitor_id \in DOMAIN heartbeat_list /\ Len(heartbeat_list[monitor_id]) > 0
    THEN LET status_value == heartbeat_list[monitor_id][Len(heartbeat_list[monitor_id])]
         IN  CASE status_value = 1 -> "online"
               [] status_value = 0 -> "offline"
               [] status_value = 2 -> "maintenance"
               [] OTHER -> "offline"
    ELSE "offline"

\* C17 as claimed: every tracked program has the status of the last heartbeat of the
\* monitor id of the first directory entry whose name is the program's monitor name,
\* and is offline when no entry has that name or that id has no heartbeat; monitors
\* 1, 2, 3 with last codes 1, 0, 2 give online, offline, maintenance.
C17_ReferenceJoin ==
    rc_done =>
        /\ \A prog_id \in ProgramIds :
             LET matches == {i \in DOMAIN rc_directory :
                               rc_directory[i].name = MonitorName(prog_id)}
                 first == CHOOSE i \in matches : \A j \in matches : i <= j
             IN  rc_program_statuses[prog_id] =
                     IF matches = {} THEN "offline"
                     ELSE LastBeatStatus(rc_heartbeats, ToString(rc_directory[first].id))
        /\ (rc_directory = ScenarioDirectory /\ rc_heartbeats = ScenarioHeartbeats) =>
               /\ rc_program_statuses["quinnflix"] = "online"
               /\ rc_program_statuses["vintage"] = "offline"
               /\ rc_program_statuses["sugarcraft"] = "maintenance"

\* C17 amended: the monitor ids are taken in the order of their first directory entry
\* with a non-empty name, each under the name of its last such entry; every tracked
\* program has the status of the last heartbeat of the first of these ids whose name
\* is the program's monitor name, and is offline when there is no such id or it has
\* no heartbeat, even if a later id of that name has; monitors 1, 2, 3 with last
\* codes 1, 0, 2 give online, offline, maintenance.
C17_ReferenceJoinById ==
    rc_done =>
        /\ \A prog_id \in ProgramIds :
             LET named == {i \in DOMAIN rc_directory : rc_directory[i].name # ""}
                 FirstEntry(id) ==
                     CHOOSE i \in named :
                        /\ rc_directory[i].id = id
                        /\ \A j \in named : rc_directory[j].id = id => i <= j
                 LastEntry(id) ==
                     CHOOSE i \in named :
                        /\ rc_directory[i].id = id
                        /\ \A j \in named : rc_directory[j].id = id => i >= j
                 matches == {id \in {rc_directory[i].id : i \in named} :
                               rc_directory[LastEntry(id)].name = MonitorName(prog_id)}
                 first == CHOOSE id \in matches :
                             \A other \in matches : FirstEntry(id) <= FirstEntry(other)
             IN  rc_program_statuses[prog_id] =
                     IF matches = {} THEN "offline"
                     ELSE LastBeatStatus(rc_heartbeats, ToString(first))
        /\ (rc_directory = ScenarioDirectory /\ rc_heartbeats = ScenarioHeartbeats) =>
               /\ rc_program_statuses["quinnflix"] = "online"
               /\ rc_program_statuses["vintage"] = "offline"
               /\ rc_program_statuses["sugarcraft"] = "maintenance"

C17_Witness ==
    /\ rc_done
    /\ rc_directory = <<[id |-> 2, name |-> "Sugarcraft"], [id |-> 2, name |-> "Other"]>>
    /\ rc_heartbeats = [monitor_id \in {"2"} |-> <<2>>]
    /\ rc_program_statuses["sugarcraft"] = "offline"

\* C18: when UPTIME_KUMA_URL or the slug is not set, no poll of the loop or of
\* /status ever makes the directory or the heartbeat request, every poll ends as a
\* failed fetch, and the cache is empty until the first poll has updated it and has
\* every tracked program offline from then on.
C18_NotConfigured ==
    ~configured =>
        /\ \A p \in Procs :
             /\ pc[p] \notin {"directory", "heartbeat", "fetched"}
             /\ fetch_outcome[p] \in {"none", "not_configured"}
             /\ ~latest_status[p].some
        /\ IF poll_completed
           THEN /\ DOMAIN cached_program_status = ProgramIds
                /\ \A prog_id \in ProgramIds : cached_program_status[prog_id] = "offline"
           ELSE cached_program_status = EmptyDict

C18_Witness ==
    /\ ~configured
    /\ poll_completed
    /\ ~cache_was_cold
    /\ pc["loop"] = "presence"
    /\ fetch_outcome["loop"] = "not_configured"
    /\ pc["status"] = "idle"
    /\ response.sent
    /\ response.fields["vintage"] = "Offline"

\* the indicator the presence shows for a status
Indicator(status) ==
    CASE status = "online" -> "check"
      [] status = "offline" -> "cross"
      [] status = "maintenance" -> "wrench"

\* C19: every poll that updates the cache, whether it replaces the snapshot, keeps it
\* or fills the empty cache with all-offline, calls change_presence once, in the step
\* of the update, with a summary built from the cache after the update: one pair of
\* program icon and status indicator per tracked program; the summary changes in no
\* other step.
C19_PresenceFollowsCache ==
    [][/\ \A p \in Procs :
            UpdatesCache(p) =>
                presence' = <<<<"clapper", Indicator(cached_program_status'["quinnflix"])>>,
                              <<"gamepad", Indicator(cached_program_status'["vintage"])>>,
                              <<"pick", Indicator(cached_program_status'["sugarcraft"])>>>>
       /\ presence' # presence => \E p \in Procs : UpdatesCache(p)]_vars

C19_Witness ==
    /\ pc["loop"] = "presence"
    /\ fetch_outcome["loop"] = "directory_http_error"
    /\ ~cache_was_cold
    /\ Complete(cached_program_status)
    /\ cached_program_status["quinnflix"] = "maintenance"
    /\ presence = <<<<"clapper", "wrench">>, <<"gamepad", "cross">>, <<"pick", "cross">>>>

(***************************************************************************)
(* Properties of the settings store.                                       *)
(***************************************************************************)
\* C10: when /setup has set channel C for server S, the settings of S read channel C,
\* and no button press and no /setup of another server changes the channel that the
\* settings of S read.
C10_ChannelRoundTrip ==
    [][/\ reply'.kind = "setup_ok"
            => ChannelOf(server_settings', reply'.guild_id) = reply'.channel
       /\ \A guild_id \in GuildKeys :
            (startup = "running" /\ ~(reply'.command = "setup" /\ reply'.guild_id = guild_id))
            => ChannelOf(server_settings', guild_id) = ChannelOf(server_settings, guild_id)]_vars

C10_Witness ==
    /\ reply.kind = "view_updated"
    /\ reply.guild_id = "1"
    /\ "1" \in views
    /\ ChannelOf(server_settings, "1") = 20
    /\ ChannelOf(settings_file.doc, "1") = 20
    /\ server_settings["1"].programs = <<"vintage", "sugarcraft">>
    /\ ChannelOf(server_settings, "2") = 10

\* C11: a press of the button of program P on the view of server S changes whether S
\* is subscribed to P, and a second press of the same button right after it leaves S
\* subscribed to exactly the programs it was subscribed to before the first, whether
\* S had no settings, settings without a list (read as all programs) or any list.
C11_ToggleInvolution ==
    [][(reply'.command = "button" /\ reply'.kind # "denied" /\ views' = views) =>
         LET guild_id == reply'.guild_id
             program_id == reply'.program
             before == Subscribed(server_settings, guild_id)
             once == Subscribed(server_settings', guild_id)
             twice == Subscribed(ToggleProgram(server_settings', guild_id, program_id),
                                 guild_id)
         IN  /\ (program_id \in once) # (program_id \in before)
             /\ twice = before]_vars

C11_Witness ==
    /\ reply.command = "button"
    /\ reply.kind = "view_updated"
    /\ reply.guild_id = "1"
    /\ reply.program = "quinnflix"
    /\ server_settings["1"].programs = <<"vintage", "sugarcraft", "quinnflix">>
    /\ ChannelOf(server_settings, "1") = 0

\* C12: a server without settings has no channel, is shown every program as subscribed
\* by /programs and is the target of no announcement; a server whose settings have
\* no list of programs is shown every program as subscribed by /programs and, once
\* its channel is set, is a target of the announcements of every program, from
\* /announce and from !announce alike.
C12_SettingsDefaults ==
    /\ \A guild_id \in GuildKeys \ DOMAIN server_settings :
         /\ ChannelOf(server_settings, guild_id) = 0
         /\ Subscribed(server_settings, guild_id) = {"quinnflix", "vintage", "sugarcraft"}
         /\ (reply.kind = "view" /\ reply.guild_id = guild_id)
                => reply.selected = {"quinnflix", "vintage", "sugarcraft"}
         /\ reply.kind = "announced" => guild_id \notin reply.targets
    /\ \A guild_id \in DOMAIN server_settings :
         ~server_settings[guild_id].has_programs =>
            /\ (reply.kind = "view" /\ reply.guild_id = guild_id)
                   => reply.selected = {"quinnflix", "vintage", "sugarcraft"}
            /\ (reply.kind = "announced" /\ server_settings[guild_id].has_channel)
                   => guild_id \in reply.targets

C12_Witness ==
    /\ reply.command = "text_announce"
    /\ reply.kind = "announced"
    /\ reply.program = "sugarcraft"
    /\ "1" \in DOMAIN server_settings
    /\ server_settings["1"].has_channel
    /\ ~server_settings["1"].has_programs
    /\ "2" \in DOMAIN server_settings
    /\ server_settings["2"].has_channel
    /\ server_settings["2"].programs = <<"quinnflix">>
    /\ reply.targets = {"1"}
    /\ reply.sent = {"1"}
    /\ "1" \in views

\* C13: when the settings file cannot be read at startup (there is no file, open
\* cannot read it, or its body is not a valid document), the import of bot.py goes
\* through and the settings in memory are empty, so that every server reads no
\* channel and all programs.
C13_FailOpenRead ==
    [][(startup = "importing" /\ settings_file.kind # "document") =>
         /\ startup' = "running"
         /\ server_settings' = EmptySettings
         /\ \A guild_id \in GuildKeys :
              /\ ChannelOf(server_settings', guild_id) = 0
              /\ Subscribed(server_settings', guild_id) = ProgramIds]_vars

\* C14: when save_settings raises in /setup or in a button press, the handler ends
\* with the exception and sends neither the success message of /setup nor the
\* updated view; either of the two is sent only with the file holding the settings
\* in memory.
C14_NoFalseSuccess ==
    [][/\ failed_writes' > failed_writes =>
            /\ reply'.kind = "error"
            /\ reply'.command \in {"setup", "button"}
       /\ reply'.kind \in {"setup_ok", "view_updated"} =>
            /\ failed_writes' = 0
            /\ settings_file' = [kind |-> "document", doc |-> server_settings']]_vars

C14_Witness ==
    /\ failed_writes = 1
    /\ reply.command = "button"
    /\ reply.kind = "error"
    /\ reply.program = "quinnflix"
    /\ settings_file.kind = "invalid"
    /\ ChannelOf(server_settings, "1") = 10
    /\ server_settings["1"].programs = <<"vintage", "sugarcraft">>

\* C20: after every step of the running bot, that is whenever no /setup and no button
\* press is under way, the settings file holds exactly the settings in memory (no
\* file standing for the empty settings), and no step removes a server's entry from
\* the settings in memory.
C20_PersistAfterMutation ==
    [][/\ startup' = "running" =>
            \/ settings_file'.kind = "document" /\ settings_file'.doc = server_settings'
            \/ settings_file'.kind = "missing" /\ server_settings' = EmptySettings
       /\ DOMAIN server_settings \subseteq DOMAIN server_settings']_vars

\* C21: a /setup step that passes the permission check leaves the stored programs list
\* and the subscribed set of its guild as they were, and a button step that passes it
\* leaves the channel of its guild and the membership of every other program as they
\* were; both leave the presence and the entry of every other guild untouched.
C21_SettingsFrame ==
    [][(views' = views /\ reply'.kind # "denied" /\ reply'.command \in {"setup", "button"}) =>
         LET guild_id == reply'.guild_id
             before == EntryOf(server_settings, guild_id)
             after == EntryOf(server_settings', guild_id)
         IN  /\ \A other \in GuildKeys \ {guild_id} :
                    /\ (other \in DOMAIN server_settings') = (other \in DOMAIN server_settings)
                    /\ EntryOf(server_settings', other) = EntryOf(server_settings, other)
             /\ reply'.command = "setup" =>
                    /\ after.has_programs = before.has_programs
                    /\ after.programs = before.programs
                    /\ Subscribed(server_settings', guild_id) = Subscribed(server_settings, guild_id)
                    /\ reply'.kind = "setup_ok" =>
                           ChannelOf(server_settings', guild_id) = reply'.channel
             /\ reply'.command = "button" =>
                    /\ after.has_channel = before.has_channel
                    /\ after.channel = before.channel
                    /\ \A program_id \in ProgramIds \ {reply'.program} :
                           (program_id \in Subscribed(server_settings', guild_id))
                               = (program_id \in Subscribed(server_settings, guild_id))
                    /\ (reply'.program \in Subscribed(server_settings', guild_id))
                           # (reply'.program \in Subscribed(server_settings, guild_id))
    ]_vars

\* /setup of guild 2 has just stored channel 20 beside a list two button presses built,
\* while guild 1 keeps its own channel and list
C21_Witness ==
    /\ reply.command = "setup"
    /\ reply.kind = "setup_ok"
    /\ reply.guild_id = "2"
    /\ "1" \in DOMAIN server_settings
    /\ "2" \in DOMAIN server_settings
    /\ server_settings["2"].channel = 20
    /\ server_settings["2"].has_programs
    /\ Len(server_settings["2"].programs) = 2
    /\ server_settings["1"].channel = 10
    /\ server_settings["1"].has_programs

\* the guilds of the store with a channel that read as subscribed to the program, every
\* guild with a channel when no program is named
ConfiguredSubscribers(program) ==
    {guild_id \in DOMAIN server_settings :
        /\ server_settings[guild_id].has_channel
        /\ program # "" => program \in Subscribed(server_settings, guild_id)}

\* C22: whichever command made it, an announcement is attempted for exactly the guilds
\* with a channel that read as subscribed to its program (all of those with a channel
\* when it names none), it is delivered to none but these, and for the store as it
\* stands the loops of /announce and of !announce pick the same guilds for every program.
C22_AnnounceTargeting ==
    /\ reply.kind = "announced" =>
          /\ reply.command \in {"announce", "text_announce"}
          /\ reply.targets = ConfiguredSubscribers(reply.program)
          /\ reply.sent \subseteq reply.targets
          /\ reply.failed_count <= Cardinality(reply.targets \ reply.sent)
    /\ startup = "running" =>
          \A program \in ProgramIds \cup {""} :
              AnnounceTargets(server_settings, program)
                  = TextAnnounceTargets(server_settings, program)

\* !announce quinnflix reached guild 1 alone: guild 2 has a channel as well and a list
\* without quinnflix
C22_Witness ==
    /\ reply.kind = "announced"
    /\ reply.command = "text_announce"
    /\ reply.program = "quinnflix"
    /\ reply.targets = {"1"}
    /\ reply.sent = {"1"}
    /\ "2" \in DOMAIN server_settings
    /\ server_settings["2"].has_channel
    /\ server_settings["2"].has_programs
    /\ ~server_settings["1"].has_programs

\* the request at hand carries the signature of its body under the shared secret
Verified == webhook_request.signature = Expected(webhook_request.body)

\* C23: update.sh is started, and 200 answered, only for a request whose
\* X-Hub-Signature-256 header is the HMAC-SHA256 of its body under the shared secret,
\* and every other request that was answered was answered 401.
C23_SignatureGate ==
    /\ webhook_pc = "updating" => Verified
    /\ webhook_response = 200 => Verified
    /\ (webhook_pc = "idle" /\ webhook_response # 0 /\ ~Verified) => webhook_response = 401

====
